---- MODULE Spec2Model ----
(***************************************************************************)
(* YUV 4:2:0 -> RGB8 conversion of openh264/src/formats/yuv2rgb.rs:        *)
(* write_rgb8_scalar, write_rgb8_f32x8 and write_rgb8_f32x8_row.           *)
(*                                                                         *)
(* Buffers are sequences of bytes; the code's 0-based index i is element   *)
(* i + 1.  A slice is an (offset, length) view of its buffer.  An f32 is a *)
(* pair <<I, F>> standing for I + F / 2^25 with 0 <= F < 2^25 (every value *)
(* the transform produces is a multiple of 2^-25), and RoundF32 is IEEE    *)
(* round-to-nearest-even to 24 significant bits, so that a mul_add rounds  *)
(* once.  A call is one action; a panic ends the program.                  *)
(***************************************************************************)
EXTENDS Integers, Sequences, FiniteSets

VARIABLES y_plane, u_plane, v_plane, dim, strides, target,
          status, conv, pre, reads, written, rows_started, kernel_calls,
          first, calls

vars == <<y_plane, u_plane, v_plane, dim, strides, target,
          status, conv, pre, reads, written, rows_started, kernel_calls,
          first, calls>>

---------------------------------------------------------------------------
\* Bounds of the model.

\* Conversions one run of the program makes on the same target buffer.
MaxCalls == 2

\* Frame sizes (width, height), strides, plane rows and sample values drawn.
Dims == {<<4, 2>>, <<8, 2>>, <<8, 4>>, <<16, 2>>}
StridesY == {8, 12, 16}
StridesUV == {4, 6, 8}
PlaneRows == {1, 2, 4}
TargetSlack == {-3, 0, 3}
Vals == <<0, 130, 36, 255, 128>>
Fills == {0, 170}

---------------------------------------------------------------------------
\* Program constants.

RGB_PIXEL_LEN == 3
STEP == 8
UV_STEP == STEP \div 2
TGT_STEP == STEP * 3

\* The f32 nearest to each coefficient, as a numerator over 2^25:
\* 1.402f32 = 2940207 / 2^21, 0.344f32 = 11542725 / 2^25,
\* 0.714f32 = 2994733 / 2^22, 1.772f32 = 14864613 / 2^23.
FRAC == 2^25
RV_MUL == 2940207 * 16
GU_MUL == 11542725
GV_MUL == 2994733 * 8
BU_MUL == 14864613 * 4

---------------------------------------------------------------------------
\* f32 arithmetic.

Abs(n) == IF n < 0 THEN -n ELSE n

FxInt(n) == <<n, 0>>

FxNeg(a) == IF a[2] = 0 THEN <<-a[1], 0>> ELSE <<-a[1] - 1, FRAC - a[2]>>

FxAdd(a, b) ==
    LET f == a[2] + b[2]
    IN  <<a[1] + b[1] + (f \div FRAC), f % FRAC>>

\* m / 2^25 times k, exactly, for 0 <= m < 2^26 and 0 <= k <= 128.
MulMag(m, k) ==
    LET a  == m \div 8192
        b  == m % 8192
        ka == k * a
        t  == (ka % 4096) * 8192 + k * b
    IN  <<(ka \div 4096) + (t \div FRAC), t % FRAC>>

FxMul(m, k) ==
    LET mag == MulMag(Abs(m), Abs(k))
    IN  IF (m < 0) # (k < 0) THEN FxNeg(mag) ELSE mag

Log2(n) == CHOOSE e \in 0..12 : 2^e <= n /\ n < 2^(e + 1)

RoundMag(a) ==
    LET q  == IF a[1] = 0 THEN (IF a[2] >= 2^24 THEN 2 ELSE 1)
                          ELSE 4 * 2^Log2(a[1])
        fl == a[2] \div q
        r  == a[2] % q
        up == IF 2 * r > q \/ (2 * r = q /\ fl % 2 = 1) THEN 1 ELSE 0
        f  == (fl + up) * q
    IN  IF f = FRAC THEN <<a[1] + 1, 0>> ELSE <<a[1], f>>

RoundF32(a) == IF a[1] < 0 THEN FxNeg(RoundMag(FxNeg(a))) ELSE RoundMag(a)

\* f32::mul_add(self, a, b): self * a + b with one rounding.
F32MulAdd(c, k, add) == RoundF32(FxAdd(FxMul(c, k), add))

\* A multiply and an add that round separately.
F32x8MulAddUnfused(k, c, add) == RoundF32(FxAdd(RoundF32(FxMul(c, k)), add))

\* wide::f32x8::mul_add(self, m, a), one lane: self * m + a with one rounding.
F32x8MulAdd(k, c, add) == RoundF32(FxAdd(FxMul(c, k), add))

\* `as u8` of an f32: truncates toward zero and saturates.
F32AsU8(a) == IF a[1] < 0 THEN 0 ELSE IF a[1] > 255 THEN 255 ELSE a[1]

\* A min that leaves its lane as it is.
FastMinDropped(a, bound) == a

FastMin(a, bound) == IF a[1] >= bound THEN FxInt(bound) ELSE a

FastMax(a, bound) == IF a[1] < bound THEN FxInt(bound) ELSE a

FastTruncInt(a) == IF a[1] >= 0 \/ a[2] = 0 THEN a[1] ELSE a[1] + 1

\* `as u8` of an i32: keeps the low eight bits.
I32AsU8(n) == n % 256

---------------------------------------------------------------------------
\* One pixel.

\* `u - 128.0`, `v - 128.0` of the scalar converter.
ScalarCentre(c) == c - 128

\* The scalar converter's three channels of one (Y, U, V) sample triple.
ScalarRgb(yv, uv, vv) ==
    LET y == FxInt(yv)
        u == ScalarCentre(uv)
        v == ScalarCentre(vv)
    IN  << F32AsU8(F32MulAdd(RV_MUL, v, y)),
           F32AsU8(F32MulAdd(GV_MUL, -v, F32MulAdd(GU_MUL, -u, y))),
           F32AsU8(F32MulAdd(BU_MUL, u, y)) >>

\* A centring that is off by one.
PackCentreOffByOne(c) == c - 127

\* `f32x8_from_slice_with_blocksize!(..) - 128.0`, one lane.
PackCentre(c) == c - 128

\* min, max, truncation and the final `as u8` of one lane.
ClampLane(a) == I32AsU8(FastTruncInt(FastMax(FastMin(a, 255), 0)))

\* The row kernel's three channels of one lane.
LaneRgb(yv, uv, vv) ==
    LET y == FxInt(yv)
        u == PackCentre(uv)
        v == PackCentre(vv)
    IN  << ClampLane(F32x8MulAdd(v, RV_MUL, y)),
           ClampLane(F32x8MulAdd(v, -GV_MUL, F32x8MulAdd(u, -GU_MUL, y))),
           ClampLane(F32x8MulAdd(u, BU_MUL, y)) >>

\* Both pixel functions on the sample values the frames hold, computed once.
ValSet == {Vals[i] : i \in 1..Len(Vals)}

ScalarTable ==
    [t \in ValSet \X ValSet \X ValSet |-> ScalarRgb(t[1], t[2], t[3])]

LaneTable ==
    [t \in ValSet \X ValSet \X ValSet |-> LaneRgb(t[1], t[2], t[3])]

\* A store that adds to what the target holds.
StoreAccumulate(old, new) == (old + new) % 256

\* `rgb_pixel[c] = ..` and `pixels[3 * i + c] = ..`: a plain store.
Store(old, new) == new

\* The target with the three bytes at 0-based `base` stored.
StoreRgb(tgt, base, rgb) ==
    [tgt EXCEPT ![base + 1] = Store(@, rgb[1]),
                ![base + 2] = Store(@, rgb[2]),
                ![base + 3] = Store(@, rgb[3])]

---------------------------------------------------------------------------
\* A call in progress: the target, what the call has read and written, how
\* many row pairs the driver has started and how often the row kernel ran.

StartRun(tgt) ==
    [target |-> tgt, status |-> "run",
     reads |-> [y |-> {}, u |-> {}, v |-> {}], written |-> {},
     rows_started |-> 0, kernel_calls |-> 0]

Panic(st) == [st EXCEPT !.status = "panic"]

Load(plane, idx) == plane[idx + 1]

InBounds(plane, idx) == 0 <= idx /\ idx < Len(plane)

---------------------------------------------------------------------------
\* write_rgb8_scalar.

\* A target index that takes the chroma row for the luma row.
BaseTgtHalfRow(x, y, d) == ((y \div 2) * d[1] + x) * 3

BaseTgt(x, y, d) == (y * d[1] + x) * 3

BaseY(x, y, s) == y * s[1] + x

\* A chroma index that takes the luma row for the chroma row.
BaseUFullRow(x, y, s) == (y * s[2]) + (x \div 2)

BaseU(x, y, s) == ((y \div 2) * s[2]) + (x \div 2)

BaseV(x, y, s) == ((y \div 2) * s[3]) + (x \div 2)

\* The two loops from pixel p (row p \div width, column p % width) on.
RECURSIVE ScalarLoop(_, _, _, _, _, _, _)
ScalarLoop(p, yp, up, vp, d, s, st) ==
    IF p >= d[1] * d[2] THEN [st EXCEPT !.status = "ok"]
    ELSE
    LET x        == p % d[1]
        y        == p \div d[1]
        base_tgt == BaseTgt(x, y, d)
        base_y   == BaseY(x, y, s)
        base_u   == BaseU(x, y, s)
        base_v   == BaseV(x, y, s)
    IN  IF base_tgt + 3 > Len(st.target) THEN Panic(st)
        ELSE IF ~InBounds(yp, base_y) THEN Panic(st)
        ELSE IF ~InBounds(up, base_u)
             THEN Panic([st EXCEPT !.reads.y = @ \cup {base_y}])
        ELSE IF ~InBounds(vp, base_v)
             THEN Panic([st EXCEPT !.reads.y = @ \cup {base_y},
                                   !.reads.u = @ \cup {base_u}])
        ELSE ScalarLoop(p + 1, yp, up, vp, d, s,
                [st EXCEPT
                    !.reads.y = @ \cup {base_y},
                    !.reads.u = @ \cup {base_u},
                    !.reads.v = @ \cup {base_v},
                    !.written = @ \cup {base_tgt, base_tgt + 1, base_tgt + 2},
                    !.target = StoreRgb(@, base_tgt,
                        ScalarTable[<<Load(yp, base_y), Load(up, base_u),
                                      Load(vp, base_v)>>])])

write_rgb8_scalar(yp, up, vp, d, s, tgt) ==
    ScalarLoop(0, yp, up, vp, d, s, StartRun(tgt))

---------------------------------------------------------------------------
\* write_rgb8_f32x8_row.  A row is a slice [off |-> .., len |-> ..].

\* A lane index that ignores the block size.
F32x8FromSliceIdxNoBlock(i, block_size) == i

\* f32x8_from_slice_with_blocksize!: lane i takes element i / block_size.
F32x8FromSliceIdx(i, block_size) == i \div block_size

\* The indices (within its row) one pack loads, and those of them in the row.
PackIdx(base, block_size) ==
    {base + F32x8FromSliceIdx(i, block_size) : i \in 0..(STEP - 1)}

PackLoaded(row, base, block_size) ==
    {row.off + j : j \in {k \in PackIdx(base, block_size) : k < row.len}}

PackFits(row, base, block_size) ==
    \A k \in PackIdx(base, block_size) : k < row.len

RowAsserts(y_row, u_row, v_row, tgt_row) ==
    /\ y_row.len = u_row.len * 2
    /\ y_row.len = v_row.len * 2
    /\ y_row.len % STEP = 0
    /\ u_row.len % UV_STEP = 0
    /\ v_row.len % UV_STEP = 0
    /\ tgt_row.len % TGT_STEP = 0

\* `for i in 0..STEP`: the lanes i.. of one batch stored into the target.
RECURSIVE StoreLanes(_, _, _, _, _, _, _, _)
StoreLanes(i, tgt, pix, yp, up, vp, ybase, uvbase) ==
    IF i >= STEP THEN tgt
    ELSE StoreLanes(i + 1,
            StoreRgb(tgt, pix + 3 * i,
                LaneTable[<<Load(yp, ybase[1] + F32x8FromSliceIdx(i, 1)),
                            Load(up, uvbase[1] + F32x8FromSliceIdx(i, 2)),
                            Load(vp, uvbase[2] + F32x8FromSliceIdx(i, 2))>>]),
            pix, yp, up, vp, ybase, uvbase)

\* `(0..width).step_by(STEP)` yields this many batches.
Batches(width) == (width + STEP - 1) \div STEP

RECURSIVE RowLoop(_, _, _, _, _, _, _, _, _, _)
RowLoop(b, yp, up, vp, y_row, u_row, v_row, width, tgt_row, st) ==
    IF b >= Batches(width) THEN st
    ELSE
    LET base_y   == b * STEP
        base_uv  == b * UV_STEP
        base_tgt == b * TGT_STEP
        pix      == tgt_row.off + base_tgt
        ry       == [st EXCEPT !.reads.y = @ \cup PackLoaded(y_row, base_y, 1)]
        ru       == [ry EXCEPT !.reads.u = @ \cup PackLoaded(u_row, base_uv, 2)]
        rv       == [ru EXCEPT !.reads.v = @ \cup PackLoaded(v_row, base_uv, 2)]
    IN  IF base_tgt + TGT_STEP > tgt_row.len THEN Panic(st)
        ELSE IF ~PackFits(y_row, base_y, 1) THEN Panic(ry)
        ELSE IF ~PackFits(u_row, base_uv, 2) THEN Panic(ru)
        ELSE IF ~PackFits(v_row, base_uv, 2) THEN Panic(rv)
        ELSE RowLoop(b + 1, yp, up, vp, y_row, u_row, v_row, width, tgt_row,
                [rv EXCEPT
                    !.written = @ \cup (pix..(pix + TGT_STEP - 1)),
                    !.target = StoreLanes(0, @, pix, yp, up, vp,
                                   <<y_row.off + base_y>>,
                                   <<u_row.off + base_uv, v_row.off + base_uv>>)])

write_rgb8_f32x8_row(yp, up, vp, y_row, u_row, v_row, width, tgt_row, st) ==
    LET called == [st EXCEPT !.kernel_calls = @ + 1]
    IN  IF ~RowAsserts(y_row, u_row, v_row, tgt_row) THEN Panic(called)
        ELSE RowLoop(0, yp, up, vp, y_row, u_row, v_row, width, tgt_row, called)

---------------------------------------------------------------------------
\* write_rgb8_f32x8.

\* The entry assertions without the one on the width.
EntryAssertsNoWidth(yp, up, vp, d) ==
    /\ Len(yp) = Len(up) * 4
    /\ Len(yp) = Len(vp) * 4

\* The three assert_eq! at entry.
EntryAsserts(yp, up, vp, d) ==
    /\ Len(yp) = Len(up) * 4
    /\ Len(yp) = Len(vp) * 4
    /\ d[1] % 8 = 0

\* base_y of the first and of the second luma row of row pair y.
FirstRowBaseY(y, s) == 2 * y * s[1]

\* A second row taken one row too far.
SecondRowBaseYSkipped(y, s) == (2 * y + 2) * s[1]

SecondRowBaseY(y, s) == (2 * y + 1) * s[1]

Slice(off, len) == [off |-> off, len |-> len]

\* `&buf[off..off + len]` is in range.
SliceFits(buf, off, len) == off + len <= Len(buf)

RECURSIVE FrameLoop(_, _, _, _, _, _, _)
FrameLoop(y, yp, up, vp, d, s, st) ==
    IF y >= d[2] \div 2 THEN [st EXCEPT !.status = "ok"]
    ELSE
    LET width    == d[1]
        rgb_bytes_per_row == RGB_PIXEL_LEN * width
        base_u   == y * s[2]
        base_v   == y * s[3]
        base_y1  == FirstRowBaseY(y, s)
        base_t1  == 2 * y * rgb_bytes_per_row
        base_y2  == SecondRowBaseY(y, s)
        base_t2  == (2 * y + 1) * rgb_bytes_per_row
        st0      == [st EXCEPT !.rows_started = @ + 1]
        u_row    == Slice(base_u, s[2])
        v_row    == Slice(base_v, s[3])
        st1      == write_rgb8_f32x8_row(yp, up, vp, Slice(base_y1, s[1]),
                        u_row, v_row, width,
                        Slice(base_t1, rgb_bytes_per_row), st0)
        st2      == write_rgb8_f32x8_row(yp, up, vp, Slice(base_y2, s[1]),
                        u_row, v_row, width,
                        Slice(base_t2, rgb_bytes_per_row), st1)
    IN  IF ~SliceFits(up, base_u, s[2]) THEN Panic(st0)
        ELSE IF ~SliceFits(vp, base_v, s[3]) THEN Panic(st0)
        ELSE IF ~SliceFits(yp, base_y1, s[1]) THEN Panic(st0)
        ELSE IF ~SliceFits(st0.target, base_t1, rgb_bytes_per_row) THEN Panic(st0)
        ELSE IF st1.status = "panic" THEN st1
        ELSE IF ~SliceFits(yp, base_y2, s[1]) THEN Panic(st1)
        ELSE IF ~SliceFits(st1.target, base_t2, rgb_bytes_per_row) THEN Panic(st1)
        ELSE IF st2.status = "panic" THEN st2
        ELSE FrameLoop(y + 1, yp, up, vp, d, s, st2)

write_rgb8_f32x8(yp, up, vp, d, s, tgt) ==
    IF ~EntryAsserts(yp, up, vp, d) THEN Panic(StartRun(tgt))
    ELSE FrameLoop(0, yp, up, vp, d, s, StartRun(tgt))

Convert(c, yp, up, vp, d, s, tgt) ==
    IF c = "scalar" THEN write_rgb8_scalar(yp, up, vp, d, s, tgt)
    ELSE write_rgb8_f32x8(yp, up, vp, d, s, tgt)

---------------------------------------------------------------------------
\* The program: a decoded frame and a caller-owned target, converted up to
\* MaxCalls times; between two conversions the caller may reuse the target.

Converters == {"scalar", "f32x8"}

\* A plane of `len` samples: Vals from `base` on, advancing `step` per byte.
Ramp(len, base, step) ==
    [i \in 1..len |-> Vals[((base + step * (i - 1)) % Len(Vals)) + 1]]

\* A target that holds earlier data.
Dirty(len) == [i \in 1..len |-> (37 * i) % 256]

Filled(len, b) == [i \in 1..len |-> b]

InitCall ==
    /\ status = "idle"
    /\ conv = "none"
    /\ pre = target
    /\ reads = [y |-> {}, u |-> {}, v |-> {}]
    /\ written = {}
    /\ rows_started = 0
    /\ kernel_calls = 0
    /\ first = [c \in Converters |-> <<>>]
    /\ calls = 0

\* Frames of every geometry, valid or not, holding varied samples.
InitGeometry ==
    \E d \in Dims, sy \in StridesY, su \in StridesUV,
       yrows \in PlaneRows, urows \in PlaneRows, slack \in TargetSlack :
      \E vg \in {<<su, urows>>, <<4, 1>>} :
        /\ dim = d
        /\ strides = <<sy, su, vg[1]>>
        /\ y_plane = Ramp(sy * yrows, 0, 1)
        /\ u_plane = Ramp(su * urows, 1, 1)
        /\ v_plane = Ramp(vg[1] * vg[2], 2, 1)
        /\ target = Dirty(d[1] * d[2] * 3 + slack)
        /\ InitCall

\* Tightly packed 8x2 frames of one colour.
InitColour ==
    \E a \in 1..Len(Vals), b \in 1..Len(Vals), c \in 1..Len(Vals) :
        /\ dim = <<8, 2>>
        /\ strides = <<8, 4, 4>>
        /\ y_plane = Filled(16, Vals[a])
        /\ u_plane = Filled(4, Vals[b])
        /\ v_plane = Filled(4, Vals[c])
        /\ target = Dirty(48)
        /\ InitCall

Init == InitGeometry \/ InitColour

\* What a call that ended in `st` leaves behind.
Returned(c, st) ==
    /\ target' = st.target
    /\ status' = st.status
    /\ reads' = st.reads
    /\ written' = st.written
    /\ rows_started' = st.rows_started
    /\ kernel_calls' = st.kernel_calls
    /\ first' = IF st.status = "ok" /\ first[c] = <<>>
                THEN [first EXCEPT ![c] = <<target, st.target>>]
                ELSE first
    /\ conv' = c
    /\ pre' = target
    /\ calls' = calls + 1
    /\ UNCHANGED <<y_plane, u_plane, v_plane, dim, strides>>

CallScalar ==
    /\ calls < MaxCalls
    /\ status # "panic"
    /\ Returned("scalar",
           write_rgb8_scalar(y_plane, u_plane, v_plane, dim, strides, target))

CallF32x8 ==
    /\ calls < MaxCalls
    /\ status # "panic"
    /\ Returned("f32x8",
           write_rgb8_f32x8(y_plane, u_plane, v_plane, dim, strides, target))

\* Between two conversions the caller overwrites the target it owns.
CallerRefill ==
    /\ status = "ok"
    /\ calls < MaxCalls
    /\ \E b \in Fills : target' = Filled(Len(target), b)
    /\ status' = "idle"
    /\ UNCHANGED <<y_plane, u_plane, v_plane, dim, strides, conv, pre, reads,
                   written, rows_started, kernel_calls, first, calls>>

Next == CallScalar \/ CallF32x8 \/ CallerRefill

Spec == Init /\ [][Next]_vars

---------------------------------------------------------------------------
\* What the properties speak of.

Width == dim[1]

Height == dim[2]

RgbLen == Width * Height * 3

Prefix(t) == SubSeq(t, 1, RgbLen)

\* A call has just returned or panicked.
Ended(c) == conv = c /\ status \in {"ok", "panic"}

\* Both converters have completed a call on this frame.
BothCompleted == first["scalar"] # <<>> /\ first["f32x8"] # <<>>

\* The three bytes of output pixel (x, y) and the sample triple 4:2:0
\* assigns to it.
PixelAt(t, x, y) ==
    LET b == (y * Width + x) * 3 IN <<t[b + 1], t[b + 2], t[b + 3]>>

TripleAt(x, y) ==
    << Load(y_plane, y * strides[1] + x),
       Load(u_plane, (y \div 2) * strides[2] + (x \div 2)),
       Load(v_plane, (y \div 2) * strides[3] + (x \div 2)) >>

Pixels == (0..(Width - 1)) \X (0..(Height - 1))

Uniform(plane, b) == \A i \in 1..Len(plane) : plane[i] = b

\* A plane with every padding byte (column >= row_width of its row) changed.
PadFlip(plane, stride, row_width) ==
    [i \in 1..Len(plane) |->
        IF (i - 1) % stride >= row_width THEN 255 - plane[i] ELSE plane[i]]

\* The geometry write_rgb8_f32x8 is documented for, strides being free but
\* no shorter than a row.
FrameDomain ==
    /\ Width % 2 = 0 /\ Height % 2 = 0 /\ Width % 8 = 0
    /\ Len(y_plane) = 4 * Len(u_plane)
    /\ Len(y_plane) = 4 * Len(v_plane)
    /\ Len(pre) >= RgbLen
    /\ strides[1] >= Width
    /\ strides[2] >= Width \div 2
    /\ strides[3] >= Width \div 2
    /\ Len(y_plane) >= strides[1] * Height
    /\ Len(u_plane) >= strides[2] * (Height \div 2)
    /\ Len(v_plane) >= strides[3] * (Height \div 2)

\* The rows the kernel is handed are as it asserts them.
RowDomain ==
    /\ strides[1] = 2 * strides[2]
    /\ strides[1] = 2 * strides[3]
    /\ strides[1] % 8 = 0

---------------------------------------------------------------------------
C2_AbortBeforeMutate ==
    status = "panic" => target = pre

\* C3 as stated: in the frame domain, with any strides no shorter than a
\* row, write_rgb8_f32x8 completes and fills the target.
C3_NoFailureAnyStride ==
    (Ended("f32x8") /\ FrameDomain)
        => (status = "ok" /\ written = 0..(RgbLen - 1))

\* C3 amended: in the frame domain, with stride_y = 2*stride_u = 2*stride_v
\* and stride_y a multiple of 8, write_rgb8_f32x8 completes and fills the
\* target.
C3_NoFailure ==
    (Ended("f32x8") /\ FrameDomain /\ RowDomain)
        => (status = "ok" /\ written = 0..(RgbLen - 1))

C3_Witness ==
    /\ Ended("f32x8") /\ FrameDomain /\ RowDomain
    /\ strides[1] > Width
    /\ Height = 4
    /\ status = "ok"

\* C4: with strides no shorter than the rows, neither converter reads a
\* padding byte, and changing every padding byte changes nothing of what the
\* call does to the target.
C4_StrideIsolation ==
    (/\ status \in {"ok", "panic"}
     /\ strides[1] >= Width
     /\ strides[2] >= Width \div 2
     /\ strides[3] >= Width \div 2)
    => /\ \A i \in reads.y : i % strides[1] < Width
       /\ \A i \in reads.u : i % strides[2] < Width \div 2
       /\ \A i \in reads.v : i % strides[3] < Width \div 2
       /\ LET st == Convert(conv,
                        PadFlip(y_plane, strides[1], Width),
                        PadFlip(u_plane, strides[2], Width \div 2),
                        PadFlip(v_plane, strides[3], Width \div 2),
                        dim, strides, pre)
          IN  st.target = target /\ st.status = status

C4_Witness ==
    /\ BothCompleted
    /\ status = "ok"
    /\ strides[1] > Width
    /\ strides[2] > Width \div 2
    /\ strides[3] > Width \div 2
    /\ PadFlip(y_plane, strides[1], Width) # y_plane
    /\ PadFlip(u_plane, strides[2], Width \div 2) # u_plane

\* C5: after a completed call, output pixel (x, y) is the converter's pixel
\* function of Y[y*stride_y + x], U[(y/2)*stride_u + x/2] and
\* V[(y/2)*stride_v + x/2].
C5_ChromaSharing ==
    status = "ok" =>
        \A p \in Pixels :
            PixelAt(target, p[1], p[2]) =
                IF conv = "scalar" THEN ScalarTable[TripleAt(p[1], p[2])]
                                   ELSE LaneTable[TripleAt(p[1], p[2])]

\* Both ran on a frame of two chroma rows that differ.
C5_Witness ==
    /\ BothCompleted
    /\ status = "ok"
    /\ Height = 4
    /\ TripleAt(0, 0)[2] # TripleAt(0, 2)[2]
    /\ TripleAt(0, 1)[1] # TripleAt(0, 0)[1]
    /\ PixelAt(target, 0, 0) # PixelAt(target, 0, 2)

\* C6: a completed call on a frame of width % 8 = 0 and even height has
\* written exactly the bytes 0 .. width*height*3 - 1, and what a larger
\* target holds beyond them is unchanged.
C6_OutputShape ==
    (status = "ok" /\ Width % 8 = 0 /\ Height % 2 = 0)
    => /\ written = 0..(RgbLen - 1)
       /\ Len(target) = Len(pre)
       /\ \A i \in (RgbLen + 1)..Len(target) : target[i] = pre[i]

C6_Witness ==
    /\ BothCompleted
    /\ status = "ok"
    /\ Width = 16
    /\ Len(target) > RgbLen
    /\ Prefix(target) # Prefix(pre)

\* C7: each channel saturates on its own: a channel whose unclamped value is
\* 256 or more is 255 and one whose unclamped value is -1 or less is 0
\* (coefficients in thousandths), and Y=255, U=128, V=255 gives
\* (255, 164, 255).
C7_Saturation ==
    status = "ok" =>
        \A p \in Pixels :
            LET t   == TripleAt(p[1], p[2])
                rgb == PixelAt(target, p[1], p[2])
                r   == 1000 * t[1] + 1402 * (t[3] - 128)
                g   == 1000 * t[1] - 344 * (t[2] - 128) - 714 * (t[3] - 128)
                b   == 1000 * t[1] + 1772 * (t[2] - 128)
            IN  /\ (r >= 256000 => rgb[1] = 255) /\ (r <= -1000 => rgb[1] = 0)
                /\ (g >= 256000 => rgb[2] = 255) /\ (g <= -1000 => rgb[2] = 0)
                /\ (b >= 256000 => rgb[3] = 255) /\ (b <= -1000 => rgb[3] = 0)
                /\ (t = <<255, 128, 255>> => rgb = <<255, 164, 255>>)

C7_Witness ==
    /\ BothCompleted
    /\ status = "ok"
    /\ TripleAt(0, 0) = <<255, 128, 255>>
    /\ PixelAt(first["scalar"][2], 0, 0) = <<255, 164, 255>>
    /\ PixelAt(first["f32x8"][2], 0, 0) = <<255, 164, 255>>

\* C8: with U = V = 128 everywhere, a frame of Y = 0 converts to 0 in every
\* byte and a frame of Y = 255 to 255 in every byte.
C8_NeutralChroma ==
    (status = "ok" /\ Uniform(u_plane, 128) /\ Uniform(v_plane, 128))
    => /\ Uniform(y_plane, 0) => Uniform(Prefix(target), 0)
       /\ Uniform(y_plane, 255) => Uniform(Prefix(target), 255)

C8_Witness ==
    /\ BothCompleted
    /\ status = "ok"
    /\ Uniform(u_plane, 128) /\ Uniform(v_plane, 128)
    /\ Uniform(y_plane, 255)
    /\ Uniform(Prefix(first["scalar"][2]), 255)
    /\ Uniform(Prefix(first["f32x8"][2]), 255)

\* C9: a completed call leaves in target[0 .. width*height*3) what the
\* converter's first completed call left there, whatever the target held
\* before either call.
C9_TargetNeverRead ==
    status = "ok" => Prefix(target) = Prefix(first[conv][2])

\* A second call of the same converter, on a target that held something else.
C9_Witness ==
    /\ status = "ok"
    /\ calls = 2
    /\ first[conv][1] # pre
    /\ Prefix(first[conv][1]) # Prefix(pre)
    /\ Prefix(target) # Prefix(pre)

\* C10: when len(Y) # 4*len(U), len(Y) # 4*len(V) or width % 8 # 0,
\* write_rgb8_f32x8 fails before its row loop starts, before the row kernel
\* runs and before it writes a byte.
C10_EntryChecks ==
    (/\ Ended("f32x8")
     /\ \/ Len(y_plane) # 4 * Len(u_plane)
        \/ Len(y_plane) # 4 * Len(v_plane)
        \/ Width % 8 # 0)
    => /\ status = "panic"
       /\ rows_started = 0
       /\ kernel_calls = 0
       /\ written = {}
       /\ target = pre

\* Only the width is wrong: the planes, strides and target would pass.
C10_Witness ==
    /\ Ended("f32x8")
    /\ status = "panic"
    /\ Width % 8 # 0
    /\ Len(y_plane) = 4 * Len(u_plane)
    /\ Len(y_plane) = 4 * Len(v_plane)
    /\ RowDomain
    /\ Len(pre) >= RgbLen

====
